---- MODULE Spec2Model ----
(***************************************************************************)
(* The C++20 coroutine generator coro::generator<T> of src/generator.h     *)
(* (lines 114-261): coroutine frames with their promise, the move-only     *)
(* generator objects that own them, the iterator adapter, and the producer *)
(* bodies of src/main.cpp (ascending_sequence, fibonacci) together with    *)
(* straight-line bodies "co_yield v1; ...; co_yield vN;".                  *)
(*                                                                         *)
(* Frames are taken from the memory resource the creating thread has       *)
(* installed: the default one (coro::mem_pool), which hands out storage    *)
(* that nothing uses, or a coro::fixed_buffer_pmr_allocator (lines         *)
(* 270-293).  T is an unsigned integer type of Width bits.  One behaviour  *)
(* uses one producer function, invoked up to MaxFrames times.              *)
(***************************************************************************)
EXTENDS Integers, Sequences, FiniteSets, TLC

\* ------------------------------------------------------------------ bounds
MaxFrames == 2          \* frame addresses (the default resource reuses none)
MaxGens   == 2          \* generator objects
MaxIters  == 1          \* iterator objects
MaxLen    == 2          \* co_yield statements in a straight-line body
Width     == 4          \* bits of the unsigned type T of the looping producers
MaxThreads == 2         \* threads that create generators
MaxBytes  == 2          \* size of a coroutine frame, in units of storage

\* runs of the body of one frame (a looping producer never ends by itself)
MaxSteps == MaxLen + 2

\* runs of the body of a looping producer that is followed on its own: with
\* sums modulo 2 ^ Width the locals of fibonacci are back at their first
\* values after 3 * 2 ^ (Width - 1) runs
MaxRuns == 2 * (2 ^ Width)

\* ------------------------------------------------------- program constants
nullptr      == 0       \* the null coroutine handle
DefaultValue == 0       \* T current_value{}
LoopCount    == 10      \* for (int i = 1; i <= 10 && iter1.next(); i++)

Modulus  == 2 ^ Width
FrameIds == 1 .. MaxFrames
GenIds   == 1 .. MaxGens
IterIds  == 1 .. MaxIters
Threads  == 1 .. MaxThreads

\* the sizes the compiler may give the frame of a producer invocation (the
\* size depends on T and on the compiler, see main.cpp lines 128-129), and the
\* capacities of a fixed buffer: from none to room for two of the largest
FrameSizes == 1 .. MaxBytes
Capacities == 0 .. 2 * MaxBytes

\* optional<T>
nullopt          == << >>
make_optional(v) == << v >>
OptionalT        == {nullopt} \cup { make_optional(v) : v \in 0 .. Modulus - 1 }

\* ------------------------------------------------------------- producers
\* a straight-line body: co_yield body[1]; ... co_yield body[N];  The values
\* are only stored and handed back, never computed with, so two of them (the
\* default value of T and another one) show every mix-up of positions.
SeqBodies == UNION { [1 .. n -> {DefaultValue, DefaultValue + 1}] : n \in 0 .. MaxLen }

\* the arguments of the looping producers: the least and the greatest value
\* of T and their neighbours
Starts   == {0, Modulus - 1}
Ceilings == {0, 1, Modulus - 2, Modulus - 1}

Producers ==
       { [kind |-> "seq", body |-> b, arg |-> 0] : b \in SeqBodies }
  \cup { [kind |-> "asc", body |-> << >>, arg |-> s] : s \in Starts }
  \cup { [kind |-> "fib", body |-> << >>, arg |-> c] : c \in Ceilings }

\* producers whose body ends in a fault that escapes it:
\*   co_yield body[1]; ... co_yield body[N]; throw ...;
ThrowingProducers ==
  { [kind |-> "throw", body |-> b, arg |-> 0] : b \in SeqBodies }

\* a promise whose initial_suspend() returns suspend_never
initial_suspend_never == "suspend_never"

\* what the promise's awaiters do
initial_suspend == "suspend_always"
final_suspend   == "suspend_always"

\* an ascending_sequence that yields the incremented value: co_yield ++i;
ascending_sequence_preincrement(start, pc, i, j) ==
  LET i0 == IF pc = 0 THEN start ELSE i
  IN  [y |-> TRUE, v |-> (i0 + 1) % Modulus, pc |-> 1,
       i |-> (i0 + 1) % Modulus, j |-> i0]

\* One run of the producer body from suspension point pc with locals i, j,
\* up to the next co_yield (y = TRUE, v the value) or the end of the body.
ascending_sequence(start, pc, i, j) ==
  LET i0 == IF pc = 0 THEN start ELSE i      \* T i = start;
  IN  [y |-> TRUE, v |-> i0, pc |-> 1,       \* T j = i++; co_yield j;
       i |-> (i0 + 1) % Modulus, j |-> i0]

\* a fibonacci that stops before the ceiling: while (i < ceiling)
fibonacci_below_ceiling(ceiling, pc, i, j) ==
  IF pc = 0
    THEN [y |-> TRUE, v |-> 0, pc |-> 1, i |-> 1, j |-> 0]
  ELSE IF pc = 1
    THEN IF ceiling > j
           THEN [y |-> TRUE, v |-> i, pc |-> 2, i |-> i, j |-> j]
           ELSE [y |-> FALSE, v |-> 0, pc |-> pc, i |-> i, j |-> j]
  ELSE LET i2 == (i + j) % Modulus
       IN  IF i2 < ceiling
             THEN [y |-> TRUE, v |-> i2, pc |-> 2, i |-> i2, j |-> i]
             ELSE [y |-> FALSE, v |-> 0, pc |-> pc, i |-> i2, j |-> i]

fibonacci(ceiling, pc, i, j) ==
  IF pc = 0
    THEN [y |-> TRUE, v |-> 0, pc |-> 1, i |-> 1, j |-> 0]   \* co_yield j;
  ELSE IF pc = 1
    THEN IF ceiling > j
           THEN [y |-> TRUE, v |-> i, pc |-> 2, i |-> i, j |-> j] \* co_yield i;
           ELSE [y |-> FALSE, v |-> 0, pc |-> pc, i |-> i, j |-> j]
  ELSE LET i2 == (i + j) % Modulus           \* tmp = i; i += j; j = tmp;
       IN  IF i2 <= ceiling
             THEN [y |-> TRUE, v |-> i2, pc |-> 2, i |-> i2, j |-> i]
             ELSE [y |-> FALSE, v |-> 0, pc |-> pc, i |-> i2, j |-> i]

straight_line(body, pc, i, j) ==
  IF pc < Len(body)
    THEN [y |-> TRUE, v |-> body[pc + 1], pc |-> pc + 1, i |-> i, j |-> j]
    ELSE [y |-> FALSE, v |-> 0, pc |-> pc, i |-> i, j |-> j]

RunBody(p, pc, i, j) ==
  IF p.kind = "asc" THEN ascending_sequence(p.arg, pc, i, j)
  ELSE IF p.kind = "fib" THEN fibonacci(p.arg, pc, i, j)
  ELSE straight_line(p.body, pc, i, j)

\* ------------------------------------------------------------------ state
VARIABLES
  producer,   \* the producer function of this run
  frames,     \* frame id -> the coroutine frame (promise, suspension point, locals)
  gens,       \* generator object -> [alive, coro]
  iters,      \* iterator object -> hdl
  crashed,    \* the process has faulted
  at,         \* consumer loop of main() -> where it stands, its generator
              \* and its iterator
  printed,    \* consumer loop of main() -> the values it has printed
  pmem_pool,  \* thread -> the memory resource its frame creations use
  pmr_alloc,  \* the fixed_buffer_pmr_allocator: buf, buf_size, max_buf_size
  bad_alloc   \* the last producer invocation threw std::bad_alloc

\* the state of the consumer loops of main()
mainvars == << at, printed >>

\* the state of the allocation strategy
allocvars == << pmem_pool, pmr_alloc, bad_alloc >>

vars == << producer, frames, gens, iters, crashed, at, printed,
          pmem_pool, pmr_alloc, bad_alloc >>

\* A frame: status, suspension point pc, done, the locals i and j and the
\* promise's current_value are the program's; the other fields record the
\* frame's history: runs of the body (steps), co_yields executed and the
\* value of the last one, the last advance request addressed to it ("none":
\* never advanced; "true", "false": a next() that resumed it, with its result;
\* "nothing": a next() that found nothing more to process; "iter": a step of
\* an iterator), destroy() calls and the operation that destroyed it.
NoFrame ==
  [status |-> "free", pc |-> 0, done |-> FALSE, i |-> 0, j |-> 0,
   current_value |-> DefaultValue,
   steps |-> 0,
   nyields |-> 0, lastYield |-> 0, lastNext |-> "none",
   destroys |-> 0, destroyedBy |-> "none"]

NoGen == [alive |-> FALSE, coro |-> nullptr]

\* no fixed_buffer_pmr_allocator has been constructed
NoAllocator == [buf |-> nullptr, buf_size |-> 0, max_buf_size |-> 0]

\* the consumer loops of main(): the loop over ascending_sequence, which
\* takes ten values, invoke_fib_seq, which drives next() and getValue() to
\* the end, and std::ranges::for_each, which drives the iterator adapter
Loops == {"ascending_sequence", "invoke_fib_seq", "for_each"}

Init ==
  /\ producer \in Producers
  /\ frames  = [f \in FrameIds |-> NoFrame]
  /\ gens    = [g \in GenIds |-> NoGen]
  /\ iters   = [it \in IterIds |-> nullptr]
  /\ crashed = FALSE
  /\ at      = [l \in Loops |-> [pc |-> "start", g |-> nullptr, it |-> nullptr]]
  /\ printed = [l \in Loops |-> << >>]
  /\ pmem_pool = [t \in Threads |-> "mem_pool"]
  /\ pmr_alloc = NoAllocator
  /\ bad_alloc = FALSE

\* ----------------------------------------------------------- the promise
\* a yield_value() that suspends without storing the value
yield_value_not_stored(fr, some_value) == fr

yield_value(fr, some_value) == [fr EXCEPT !.current_value = some_value]

\* coroutine_handle::destroy(): tears the frame down where it is suspended;
\* the promise and the locals are gone with the storage.  Of the frame's
\* history its runs and co_yields stay on record, and whether it was ever
\* advanced ("none") or not ("gone").
destroy(fr, by) ==
  [NoFrame EXCEPT !.status = "destroyed", !.destroys = fr.destroys + 1,
                  !.destroyedBy = by, !.steps = fr.steps,
                  !.nyields = fr.nyields,
                  !.lastNext = IF fr.lastNext = "none" THEN "none" ELSE "gone"]

\* a return_void() that clears the promise's value
return_void_clears_value(fr) == [fr EXCEPT !.current_value = DefaultValue]

\* promise_type::return_void(): the body has ended; the promise is left alone
return_void(fr) == fr

\* coroutine_handle::resume(): run the body to its next suspension point
resume(fr) ==
  LET r  == RunBody(producer, fr.pc, fr.i, fr.j)
      ran == [fr EXCEPT !.pc = r.pc, !.i = r.i, !.j = r.j, !.steps = @ + 1]
  IN  IF r.y
        THEN yield_value([ran EXCEPT !.nyields = @ + 1, !.lastYield = r.v], r.v)
        ELSE IF final_suspend = "suspend_always"
               THEN [return_void(ran) EXCEPT !.done = TRUE]
               ELSE destroy([return_void(ran) EXCEPT !.done = TRUE],
                            "final_suspend")

done(fr) == fr.done

\* the next run of the body of frame fr ends in a fault that escapes the body
body_throws(fr) == producer.kind = "throw" /\ fr.pc = Len(producer.body)

\* resume() of handle c by next(), begin() or ++ would run into that fault
resume_throws(c) ==
  /\ producer.kind = "throw"
  /\ c # nullptr
  /\ frames[c].status = "live" /\ ~ done(frames[c])
  /\ body_throws(frames[c])

\* a promise whose current_value is left without an initializer and holds
\* whatever the storage held
NewFrame_value_uninitialized ==
  [NoFrame EXCEPT !.status = "live", !.current_value = DefaultValue + 1]

\* the frame a producer invocation builds: promise_type(), get_return_object(),
\* initial_suspend()
NewFrame ==
  LET fr == [NoFrame EXCEPT !.status = "live"]
  IN  IF initial_suspend = "suspend_always"
        THEN fr
        ELSE resume(fr)

\* Storage is named by its address, and a coroutine handle is the address of
\* its frame.  mem_pool, the default resource, hands out storage that is in
\* use by nothing else: never the fixed buffer, never a frame's.
FreeFrames ==
  { f \in FrameIds : frames[f].status = "free" /\ f # pmr_alloc.buf }
NextFrame  == CHOOSE f \in FreeFrames : \A o \in FreeFrames : f <= o

\* a do_allocate() that refuses a request for all that is left
do_allocate_refusing_exact_fit(bytes) ==
  IF bytes >= pmr_alloc.buf_size
    THEN [throws |-> TRUE, p |-> nullptr, pmr_alloc |-> pmr_alloc]
    ELSE [throws |-> FALSE, p |-> pmr_alloc.buf,
          pmr_alloc |-> [pmr_alloc EXCEPT !.buf_size = @ - bytes]]

\* a do_allocate() that debits the request before it tests it
do_allocate_debiting_first(bytes) ==
  IF bytes > pmr_alloc.buf_size
    THEN [throws |-> TRUE, p |-> nullptr,
          pmr_alloc |-> [pmr_alloc EXCEPT !.buf_size = 0]]
    ELSE [throws |-> FALSE, p |-> pmr_alloc.buf,
          pmr_alloc |-> [pmr_alloc EXCEPT !.buf_size = @ - bytes]]

\* fixed_buffer_pmr_allocator::do_allocate(bytes, alignment): throws
\* std::bad_alloc, or debits the request and returns buf
do_allocate(bytes) ==
  IF bytes > pmr_alloc.buf_size
    THEN [throws |-> TRUE, p |-> nullptr, pmr_alloc |-> pmr_alloc]
    ELSE [throws |-> FALSE, p |-> pmr_alloc.buf,
          pmr_alloc |-> [pmr_alloc EXCEPT !.buf_size = @ - bytes]]

\* an operator new that goes to the default resource whatever was installed
operator_new_from_mem_pool(t, sz) ==
  [throws |-> FALSE, p |-> NextFrame, pmr_alloc |-> pmr_alloc]

\* promise_type::operator new(sz) on thread t: pmem_pool->allocate(sz)
operator_new(t, sz) ==
  IF pmem_pool[t] = "pmr_alloc"
    THEN do_allocate(sz)
    ELSE [throws |-> FALSE, p |-> NextFrame, pmr_alloc |-> pmr_alloc]

\* a do_deallocate() that gives the bytes back to the buffer
do_deallocate_crediting(bytes) == [pmr_alloc EXCEPT !.buf_size = @ + bytes]

\* fixed_buffer_pmr_allocator::do_deallocate(p, bytes, alignment): {}
do_deallocate(bytes) == pmr_alloc

\* promise_type::operator delete(ptr, sz) on thread t:
\* pmem_pool->deallocate(ptr, sz), the fixed buffer allocator afterwards
operator_delete(t, sz) ==
  IF pmem_pool[t] = "pmr_alloc" THEN do_deallocate(sz) ELSE pmr_alloc

\* the memory resource that supplied the storage at address p: do_allocate()
\* returns buf, and mem_pool never does
allocated_from(p) ==
  IF pmr_alloc # NoAllocator /\ p = pmr_alloc.buf THEN "pmr_alloc" ELSE "mem_pool"

\* destroying the frame at p on thread t is undefined: the frame was destroyed
\* before (another generator was built in the same bytes of the buffer), or
\* mem_pool is asked to deallocate storage it did not allocate
delete_undefined(t, p) ==
  \/ frames[p].status # "live"
  \/ pmem_pool[t] = "mem_pool" /\ allocated_from(p) = "pmr_alloc"

\* reset_default_pmr_mem_pool() on thread t: pmem_pool = &mem_pool
reset_pool(t) == [pmem_pool EXCEPT ![t] = "mem_pool"]

\* a pmem_pool that is not thread_local: one pointer for the whole process
set_pool_process_wide(t) == [u \in Threads |-> "pmr_alloc"]

\* set_pmr_mem_pool(&pmr_alloc) on thread t: pmem_pool = mem_pool_cust
set_pool(t) == [pmem_pool EXCEPT ![t] = "pmr_alloc"]

\* the storage of the next generator object to be constructed
DeadGens == { g \in GenIds : ~ gens[g].alive }
NewGen   == CHOOSE g \in DeadGens : \A o \in DeadGens : g <= o

\* ------------------------------------------------------ generator methods
\* a next() that tests the handle but not done()
next_nothing_more_unless_null(c) == c = nullptr

\* generator::next(), line 165: "nothing more to process"
next_nothing_more(c) == c = nullptr \/ done(frames[c])

\* a next() that reads done() before it resumes
next_result_before_resume(c) ==
  IF next_nothing_more(c) THEN FALSE ELSE ~ done(frames[c])

\* generator::next(): the value returned
next_result(c) ==
  IF next_nothing_more(c) THEN FALSE ELSE ~ done(resume(frames[c]))

\* generator::next(): the frames after the call
next_frames(c) ==
  IF c = nullptr THEN frames
  ELSE IF next_nothing_more(c)
    THEN [frames EXCEPT ![c].lastNext = "nothing"]
    ELSE [frames EXCEPT ![c] = [resume(@) EXCEPT !.lastNext =
                                  IF next_result(c) THEN "true" ELSE "false"]]

\* a getValue() that reports a value only once the producer has yielded one
getValue_absent_before_yield(g) ==
  IF gens[g].coro # nullptr /\ frames[gens[g].coro].nyields > 0
    THEN make_optional(frames[gens[g].coro].current_value)
    ELSE nullopt

\* a getValue() that reports a default-constructed T when it holds no frame
getValue_engaged_when_empty(g) ==
  IF gens[g].coro # nullptr
    THEN make_optional(frames[gens[g].coro].current_value)
    ELSE make_optional(DefaultValue)

\* generator::getValue()
getValue(g) ==
  IF gens[g].coro # nullptr
    THEN make_optional(frames[gens[g].coro].current_value)
    ELSE nullopt

\* a getValue() that lets the producer run on to its next value
getValue_frames_resuming(g) ==
  IF next_nothing_more(gens[g].coro)
    THEN frames
    ELSE [frames EXCEPT ![gens[g].coro] = resume(@)]

\* generator::getValue(): the frames after the call (it writes nothing)
getValue_frames(g) == frames

\* a move constructor that leaves the source its handle
move_construct_keeping_source(dst, src) ==
  [gens EXCEPT ![dst] = [alive |-> TRUE, coro |-> gens[src].coro]]

\* generator(generator&& oth): the generator objects afterwards
move_construct(dst, src) ==
  [gens EXCEPT ![dst] = [alive |-> TRUE, coro |-> gens[src].coro],
               ![src] = [@ EXCEPT !.coro = nullptr]]

\* a move assignment without the test for assignment to self
assign_destroys_self_too(dst, src) == gens[dst].coro # nullptr

\* a move assignment that only overwrites the handle it holds
assign_destroys_never(dst, src) == FALSE

\* operator=(generator&& other): does it destroy the handle it holds?
assign_destroys(dst, src) == dst # src /\ gens[dst].coro # nullptr

\* a move assignment that leaves the source its handle
move_assign_keeping_source(dst, src) ==
  IF dst # src
    THEN [gens EXCEPT ![dst] = [@ EXCEPT !.coro = gens[src].coro]]
    ELSE gens

\* a move assignment without the test for assignment to self
move_assign_untested(dst, src) ==
  [gens EXCEPT ![dst] = [@ EXCEPT !.coro = gens[src].coro],
               ![src] = [@ EXCEPT !.coro = nullptr]]

\* operator=(generator&& other): the generator objects afterwards
move_assign(dst, src) ==
  IF dst # src
    THEN [gens EXCEPT ![dst] = [@ EXCEPT !.coro = gens[src].coro],
                      ![src] = [@ EXCEPT !.coro = nullptr]]
    ELSE gens

\* ~generator(): does it destroy the handle it holds?
dtor_destroys(g) == gens[g].coro # nullptr

\* a destructor that lets the producer run on before it destroys the frame
dtor_frame_resumed(fr) ==
  destroy(IF done(fr) THEN fr ELSE resume(fr), "dtor")

\* ~generator(): what becomes of the frame it holds
dtor_frame(fr) == destroy(fr, "dtor")

\* ----------------------------------------------------------------- actions
\* the process faults: it ends, and every object is gone with it
Fault ==
  /\ crashed' = TRUE
  /\ frames' = [f \in FrameIds |-> NoFrame]
  /\ gens' = [g \in GenIds |-> NoGen]
  /\ iters' = [it \in IterIds |-> nullptr]
  /\ UNCHANGED << producer, allocvars >>

\* an unhandled_exception() that rethrows: the fault leaves resume() as an
\* exception the consumer can catch, and the coroutine is at its final
\* suspension point
unhandled_exception_rethrown(c) ==
  /\ frames' = [frames EXCEPT ![c] = [@ EXCEPT !.done = TRUE, !.steps = @ + 1]]
  /\ UNCHANGED << producer, gens, iters, crashed, allocvars >>

\* promise_type::unhandled_exception(), entered when a fault escapes the body
\* of frame c: std::terminate()
unhandled_exception(c) == Fault

\* invoking the producer function on thread t: auto g = producer(args);
\* The frame, of sz bytes, is built in the storage operator new returns, over
\* whatever that storage holds; if operator new throws, nothing is built and
\* the exception reaches the caller.
Create(t, sz) ==
  /\ ~ crashed
  /\ pmem_pool[t] = "mem_pool" => FreeFrames # {}
  /\ ~ operator_new(t, sz).throws => DeadGens # {}
  /\ LET new == operator_new(t, sz) IN
       IF new.throws
         THEN /\ bad_alloc' = TRUE
              /\ pmr_alloc' = new.pmr_alloc
              /\ UNCHANGED << frames, gens >>
         ELSE /\ bad_alloc' = FALSE
              /\ pmr_alloc' = new.pmr_alloc
              /\ frames' = [frames EXCEPT ![new.p] = NewFrame]
              /\ gens' = [gens EXCEPT ![NewGen] =
                            [alive |-> TRUE, coro |-> new.p]]
  /\ UNCHANGED << producer, iters, crashed, pmem_pool >>

\* coro::fixed_buffer_pmr_allocator pmr_alloc{ alloca(buf_size), buf_size };
fixed_buffer_pmr_allocator(buf_size) ==
  /\ ~ crashed
  /\ pmr_alloc = NoAllocator
  /\ FreeFrames # {}
  /\ pmr_alloc' = [buf |-> NextFrame, buf_size |-> buf_size,
                   max_buf_size |-> buf_size]
  /\ UNCHANGED << producer, frames, gens, iters, crashed, pmem_pool, bad_alloc >>

\* coro::set_pmr_mem_pool(&pmr_alloc); on thread t
set_pmr_mem_pool(t) ==
  /\ ~ crashed
  /\ pmr_alloc # NoAllocator
  /\ pmem_pool' = set_pool(t)
  /\ UNCHANGED << producer, frames, gens, iters, crashed, pmr_alloc, bad_alloc >>

\* a reset that owns the resource it replaces and releases what it holds
reset_default_pmr_mem_pool_releasing(t) ==
  /\ ~ crashed
  /\ pmem_pool' = reset_pool(t)
  /\ pmr_alloc' = IF pmem_pool[t] = "pmr_alloc"
                    THEN [pmr_alloc EXCEPT !.buf_size = pmr_alloc.max_buf_size]
                    ELSE pmr_alloc
  /\ UNCHANGED << producer, frames, gens, iters, crashed, bad_alloc >>

\* coro::reset_default_pmr_mem_pool(); on thread t
reset_default_pmr_mem_pool(t) ==
  /\ ~ crashed
  /\ pmem_pool' = reset_pool(t)
  /\ UNCHANGED << producer, frames, gens, iters, crashed, pmr_alloc, bad_alloc >>

\* generator dst{std::move(src)};
MoveConstruct(src) ==
  /\ ~ crashed
  /\ DeadGens # {}
  /\ gens[src].alive
  /\ gens' = move_construct(NewGen, src)
  /\ UNCHANGED << producer, frames, iters, crashed, allocvars >>

\* dst = std::move(src);
MoveAssign(dst, src) ==
  /\ ~ crashed
  /\ gens[dst].alive
  /\ gens[src].alive
  /\ gens' = move_assign(dst, src)
  /\ frames' = IF assign_destroys(dst, src)
                 THEN [frames EXCEPT ![gens[dst].coro] = destroy(@, "assign")]
                 ELSE frames
  /\ UNCHANGED << producer, iters, crashed, allocvars >>

\* ~generator()
Destruct(g) ==
  /\ ~ crashed
  /\ gens[g].alive
  /\ frames' = IF dtor_destroys(g)
                 THEN [frames EXCEPT ![gens[g].coro] = dtor_frame(@)]
                 ELSE frames
  /\ gens' = [gens EXCEPT ![g] = NoGen]
  /\ UNCHANGED << producer, iters, crashed, allocvars >>

\* g.next(), for a frame that has run fewer than cap times
next_within(g, cap) ==
  /\ ~ crashed
  /\ gens[g].alive
  /\ ~ next_nothing_more(gens[g].coro) => frames[gens[g].coro].steps < cap
  /\ IF resume_throws(gens[g].coro)
       THEN unhandled_exception(gens[g].coro)
       ELSE /\ frames' = next_frames(gens[g].coro)
            /\ UNCHANGED << producer, gens, iters, crashed, allocvars >>

\* g.next()
next(g) == next_within(g, MaxSteps)

\* g.getValue()
GetValue(g) ==
  /\ ~ crashed
  /\ gens[g].alive
  /\ getValue(g) \in OptionalT
  /\ frames' = getValue_frames(g)
  /\ UNCHANGED << producer, gens, iters, crashed, allocvars >>

\* iterator::getNext() on a handle h that is not null: the frames and the
\* iterator's hdl afterwards
\* generator::end(): iterator{nullptr}; an iterator is its hdl
end == nullptr

\* an equality under which an end iterator equals nothing
operator_eq_unless_null(a, b) == a = b /\ a # nullptr

\* iterator::operator==(const iterator& i) const = default: hdl == i.hdl
operator_eq(a, b) == a = b

\* a getNext() that runs the body from its start
getNext_frames_rewinding(h) ==
  [frames EXCEPT ![h] =
     [resume([@ EXCEPT !.pc = 0, !.i = 0, !.j = 0]) EXCEPT !.lastNext = "iter"]]

getNext_frames(h) ==
  [frames EXCEPT ![h] = [resume(@) EXCEPT !.lastNext = "iter"]]

\* a getNext() that keeps its handle whatever done() says
getNext_hdl_unchecked(h) == h

getNext_hdl(h) == IF done(resume(frames[h])) THEN nullptr ELSE h

\* a begin() that hands out the iterator without the first getNext()
begin_without_getNext(g, it) ==
  /\ ~ crashed
  /\ gens[g].alive
  /\ iters' = [iters EXCEPT ![it] =
                IF next_nothing_more(gens[g].coro) THEN nullptr ELSE gens[g].coro]
  /\ UNCHANGED << producer, frames, gens, crashed, allocvars >>

\* ------------------------------------------- the earlier coro_exp::generator
\* coro_exp::generator::operator=(generator&& other): the generator objects
\* afterwards.  coro = other.coro; other.coro = nullptr; with no test for
\* assignment to self, and the handle held before is overwritten.
coro_exp_move_assign(dst, src) ==
  [gens EXCEPT ![dst] = [@ EXCEPT !.coro = gens[src].coro],
               ![src] = [@ EXCEPT !.coro = nullptr]]

\* coro_exp::generator::operator=(generator&& other): does it destroy the
\* handle it holds?
coro_exp_assign_destroys(dst, src) == FALSE

\* dst = std::move(src) on coro_exp::generator
coro_exp_MoveAssign(dst, src) ==
  /\ ~ crashed
  /\ gens[dst].alive
  /\ gens[src].alive
  /\ gens' = coro_exp_move_assign(dst, src)
  /\ frames' = IF coro_exp_assign_destroys(dst, src)
                 THEN [frames EXCEPT ![gens[dst].coro] = destroy(@, "assign")]
                 ELSE frames
  /\ UNCHANGED << producer, iters, crashed, allocvars >>

\* coro_exp::generator::next() tests nothing before coro.resume(): is the
\* call it makes one on a null handle or on a coroutine that is done()?
coro_exp_next_undefined(c) == c = nullptr \/ done(frames[c])

\* coro_exp::generator::next(): coro.resume(); return not coro.done();
\* resume() on a null handle, or on a coroutine at its final suspension
\* point, is undefined: the call goes through a null pointer and the process
\* faults
coro_exp_next(g) ==
  /\ ~ crashed
  /\ gens[g].alive
  /\ IF coro_exp_next_undefined(gens[g].coro)
       THEN Fault
       ELSE /\ frames[gens[g].coro].steps < MaxSteps
            /\ frames' = [frames EXCEPT ![gens[g].coro] =
                            [resume(@) EXCEPT !.lastNext =
                               IF done(resume(frames[gens[g].coro]))
                                 THEN "false" ELSE "true"]]
            /\ UNCHANGED << producer, gens, iters, crashed, allocvars >>

\* ~generator() on thread t, of a generator whose frame has sz bytes:
\* coro.destroy() tears the frame down and hands its storage to operator
\* delete, which goes to the resource thread t has installed now.  Where that
\* is undefined the process faults, or it runs on as if it were not.
DestructOn(t, g, sz) ==
  /\ ~ crashed
  /\ gens[g].alive
  /\ IF dtor_destroys(g)
       THEN \/ /\ frames' = [frames EXCEPT ![gens[g].coro] = dtor_frame(@)]
               /\ gens' = [gens EXCEPT ![g] = NoGen]
               /\ pmr_alloc' = operator_delete(t, sz)
               /\ UNCHANGED << producer, iters, crashed, pmem_pool, bad_alloc >>
            \/ /\ delete_undefined(t, gens[g].coro)
               /\ Fault
       ELSE /\ gens' = [gens EXCEPT ![g] = NoGen]
            /\ UNCHANGED << producer, frames, iters, crashed, allocvars >>

\* it = g.begin()
begin(g, it) ==
  /\ ~ crashed
  /\ gens[g].alive
  /\ LET c == gens[g].coro IN
       IF next_nothing_more(c)
         THEN /\ iters' = [iters EXCEPT ![it] = nullptr]
              /\ UNCHANGED << producer, frames, gens, crashed, allocvars >>
         ELSE IF resume_throws(c)
           THEN unhandled_exception(c)
           ELSE /\ frames[c].steps < MaxSteps
                /\ frames' = getNext_frames(c)
                /\ iters' = [iters EXCEPT ![it] = getNext_hdl(c)]
                /\ UNCHANGED << producer, gens, crashed, allocvars >>

\* ++it on an iterator whose hdl is null, or refers to a frame suspended at a
\* co_yield
Increment(it) ==
  /\ ~ crashed
  /\ LET h == iters[it] IN
       IF h = nullptr
         THEN UNCHANGED << producer, frames, gens, iters, crashed, allocvars >>
         ELSE /\ frames[h].status = "live"
              /\ ~ done(frames[h])
              /\ IF resume_throws(h)
                   THEN unhandled_exception(h)
                   ELSE /\ frames[h].steps < MaxSteps
                        /\ frames' = getNext_frames(h)
                        /\ iters' = [iters EXCEPT ![it] = getNext_hdl(h)]
                        /\ UNCHANGED << producer, gens, crashed, allocvars >>

\* ++it on an iterator whose frame is at its final suspension point: resume()
\* on a coroutine that is done() is undefined; the frame's resume pointer is
\* null there, and the call through it faults
IncrementDone(it) ==
  /\ ~ crashed
  /\ iters[it] # nullptr
  /\ frames[iters[it]].status = "live"
  /\ done(frames[iters[it]])
  /\ Fault

\* ++it on an iterator whose frame was destroyed: the handle dangles and
\* resume() and done() read freed storage; the process faults, or it runs on
\* and the iterator keeps its handle or drops it
IncrementDangling(it) ==
  /\ ~ crashed
  /\ iters[it] # nullptr
  /\ frames[iters[it]].status = "destroyed"
  /\ \/ Fault
     \/ \E h \in {iters[it], nullptr} :
          /\ iters' = [iters EXCEPT ![it] = h]
          /\ UNCHANGED << producer, frames, gens, crashed, allocvars >>

\* iterator::operator*()
deref(it) == frames[iters[it]].current_value

\* ------------------------------------------------- the consumers of main()
\* auto iter1 = ascending_sequence(start);
\* for (int i = 1; i <= 10 && iter1.next(); i++) {
\*   value = iter1.getValue().value(); print }
\* i is one more than the number of values printed.
AscStart ==
  /\ at["ascending_sequence"].pc = "start"
  /\ \E t \in Threads, sz \in FrameSizes : Create(t, sz)
  /\ ~ bad_alloc'
  /\ at' = [at EXCEPT !["ascending_sequence"] =
              [@ EXCEPT !.pc = "test", !.g = NewGen]]
  /\ UNCHANGED printed

AscTest ==
  /\ at["ascending_sequence"].pc = "test"
  /\ IF Len(printed["ascending_sequence"]) + 1 <= LoopCount
       THEN /\ next_within(at["ascending_sequence"].g, LoopCount + 1)
            /\ at' = [at EXCEPT !["ascending_sequence"].pc =
                        IF next_result(gens[at["ascending_sequence"].g].coro)
                          THEN "body" ELSE "end"]
       ELSE /\ ~ crashed
            /\ at' = [at EXCEPT !["ascending_sequence"].pc = "end"]
            /\ UNCHANGED << producer, frames, gens, iters, crashed, allocvars >>
  /\ UNCHANGED printed

AscBody ==
  /\ at["ascending_sequence"].pc = "body"
  /\ GetValue(at["ascending_sequence"].g)
  /\ LET value == getValue(at["ascending_sequence"].g) IN
       IF value = nullopt
         THEN /\ at' = [at EXCEPT !["ascending_sequence"].pc =
                          "bad_optional_access"]
              /\ UNCHANGED printed
         ELSE /\ at' = [at EXCEPT !["ascending_sequence"].pc = "test"]
              /\ printed' = [printed EXCEPT !["ascending_sequence"] =
                               Append(@, value[1])]

\* invoke_fib_seq(producer(args)):
\*   for (int i = 1; iter.next(); i++) { value = iter.getValue().value(); print }
InvokeStart ==
  /\ at["invoke_fib_seq"].pc = "start"
  /\ \E t \in Threads, sz \in FrameSizes : Create(t, sz)
  /\ ~ bad_alloc'
  /\ at' = [at EXCEPT !["invoke_fib_seq"] = [@ EXCEPT !.pc = "test", !.g = NewGen]]
  /\ UNCHANGED printed

InvokeTestWithin(cap) ==
  /\ at["invoke_fib_seq"].pc = "test"
  /\ next_within(at["invoke_fib_seq"].g, cap)
  /\ at' = [at EXCEPT !["invoke_fib_seq"].pc =
              IF next_result(gens[at["invoke_fib_seq"].g].coro)
                THEN "body" ELSE "end"]
  /\ UNCHANGED printed

InvokeTest == InvokeTestWithin(MaxSteps)

InvokeBody ==
  /\ at["invoke_fib_seq"].pc = "body"
  /\ GetValue(at["invoke_fib_seq"].g)
  /\ LET value == getValue(at["invoke_fib_seq"].g) IN
       IF value = nullopt
         THEN /\ at' = [at EXCEPT !["invoke_fib_seq"].pc = "bad_optional_access"]
              /\ UNCHANGED printed
         ELSE /\ at' = [at EXCEPT !["invoke_fib_seq"].pc = "test"]
              /\ printed' = [printed EXCEPT !["invoke_fib_seq"] = Append(@, value[1])]

\* auto rng = producer(args); std::ranges::for_each(rng, print):
\*   for (it = rng.begin(); it != rng.end(); ++it) print(*it);
ForEachStart ==
  /\ at["for_each"].pc = "start"
  /\ \E t \in Threads, sz \in FrameSizes : Create(t, sz)
  /\ ~ bad_alloc'
  /\ at' = [at EXCEPT !["for_each"] = [@ EXCEPT !.pc = "begin", !.g = NewGen]]
  /\ UNCHANGED printed

ForEachBegin ==
  /\ at["for_each"].pc = "begin"
  /\ \E it \in IterIds :
       /\ begin(at["for_each"].g, it)
       /\ at' = [at EXCEPT !["for_each"] = [@ EXCEPT !.pc = "test", !.it = it]]
  /\ UNCHANGED printed

ForEachTest ==
  /\ at["for_each"].pc = "test"
  /\ ~ crashed
  /\ IF iters[at["for_each"].it] = nullptr
       THEN /\ at' = [at EXCEPT !["for_each"].pc = "end"]
            /\ UNCHANGED printed
       ELSE /\ at' = [at EXCEPT !["for_each"].pc = "incr"]
            /\ printed' = [printed EXCEPT !["for_each"] =
                             Append(@, deref(at["for_each"].it))]
  /\ UNCHANGED << producer, frames, gens, iters, crashed, allocvars >>

ForEachIncr ==
  /\ at["for_each"].pc = "incr"
  /\ Increment(at["for_each"].it)
  /\ at' = [at EXCEPT !["for_each"].pc = "test"]
  /\ UNCHANGED printed

MainNext ==
  \/ InvokeStart
  \/ InvokeTest
  \/ InvokeBody
  \/ ForEachStart
  \/ ForEachBegin
  \/ ForEachTest
  \/ ForEachIncr

\* the operations on generator objects
GenNext ==
  \/ \E t \in Threads, sz \in FrameSizes : Create(t, sz) /\ UNCHANGED mainvars
  \/ \E src \in GenIds : MoveConstruct(src) /\ UNCHANGED mainvars
  \/ \E dst \in GenIds, src \in GenIds :
       MoveAssign(dst, src) /\ UNCHANGED mainvars
  \/ \E g \in GenIds : Destruct(g) /\ UNCHANGED mainvars
  \/ \E g \in GenIds : next(g) /\ UNCHANGED mainvars
  \/ \E g \in GenIds : GetValue(g) /\ UNCHANGED mainvars

\* the operations of the iterator adapter
IterNext ==
  \/ \E g \in GenIds, it \in IterIds : begin(g, it) /\ UNCHANGED mainvars
  \/ \E it \in IterIds : Increment(it) /\ UNCHANGED mainvars
  \/ \E it \in IterIds : IncrementDone(it) /\ UNCHANGED mainvars
  \/ \E it \in IterIds : IncrementDangling(it) /\ UNCHANGED mainvars

Next == GenNext \/ IterNext

\* consumers that drive generators through next() / getValue()
Spec == Init /\ [][GenNext]_vars

\* consumers that also use the iterator adapter
SpecIter == Init /\ [][Next]_vars

\* all operations, on producers that end after at most one co_yield: every
\* state a frame can be in (not started, suspended at a co_yield, done) with
\* every way of handing handles around
InitShort ==
  /\ Init
  /\ producer.kind = "seq"
  /\ Len(producer.body) <= 1

SpecOwn == InitShort /\ [][Next]_vars

\* The generator's own operations over the two producers of src/main.cpp,
\* ascending_sequence and fibonacci, in any interleaving.
InitMove ==
  /\ Init
  /\ producer.kind \in {"asc", "fib"}

SpecMove == InitMove /\ [][GenNext]_vars

\* Generators as the values of a scope: created, handed on by move
\* construction, advanced, read and destroyed at the end of their scope; no
\* generator is assigned to.  Over every producer.
UseNext ==
  \/ \E t \in Threads, sz \in FrameSizes : Create(t, sz) /\ UNCHANGED mainvars
  \/ \E src \in GenIds : MoveConstruct(src) /\ UNCHANGED mainvars
  \/ \E g \in GenIds : Destruct(g) /\ UNCHANGED mainvars
  \/ \E g \in GenIds : next(g) /\ UNCHANGED mainvars
  \/ \E g \in GenIds : GetValue(g) /\ UNCHANGED mainvars

SpecUse == Init /\ [][UseNext]_vars

\* Generator objects that stay in scope while their frames are handed from
\* one to the other by move construction and move assignment and advanced
\* in between.  Over every producer.
HandoverNext ==
  \/ \E t \in Threads, sz \in FrameSizes : Create(t, sz) /\ UNCHANGED mainvars
  \/ \E src \in GenIds : MoveConstruct(src) /\ UNCHANGED mainvars
  \/ \E dst \in GenIds, src \in GenIds :
       MoveAssign(dst, src) /\ UNCHANGED mainvars
  \/ \E g \in GenIds : next(g) /\ UNCHANGED mainvars

SpecHandover == Init /\ [][HandoverNext]_vars

\* The generators of one scope over the producers of src/main.cpp, none of
\* them destroyed, consumed through next() / getValue() and through iterators
\* in any interleaving; a move construction leaves a generator without a
\* frame behind.
RangeNext ==
  \/ \E t \in Threads, sz \in FrameSizes : Create(t, sz) /\ UNCHANGED mainvars
  \/ \E src \in GenIds : MoveConstruct(src) /\ UNCHANGED mainvars
  \/ \E g \in GenIds : next(g) /\ UNCHANGED mainvars
  \/ \E g \in GenIds : GetValue(g) /\ UNCHANGED mainvars
  \/ \E g \in GenIds, it \in IterIds : begin(g, it) /\ UNCHANGED mainvars
  \/ \E it \in IterIds : Increment(it) /\ UNCHANGED mainvars
  \/ \E it \in IterIds : IncrementDone(it) /\ UNCHANGED mainvars

SpecRange == InitMove /\ [][RangeNext]_vars

\* Generators of one scope created through the allocation strategy, by
\* threads that install the fixed buffer allocator and reset to the default,
\* and advanced through next(); the producer is co_yield 1; (its value tells
\* a frame that has yielded from one that was just built).
InitAlloc ==
  /\ Init
  /\ producer = [kind |-> "seq", body |-> << DefaultValue + 1 >>, arg |-> 0]

AllocNext ==
  \/ \E c \in Capacities : fixed_buffer_pmr_allocator(c) /\ UNCHANGED mainvars
  \/ \E t \in Threads : set_pmr_mem_pool(t) /\ UNCHANGED mainvars
  \/ \E t \in Threads : reset_default_pmr_mem_pool(t) /\ UNCHANGED mainvars
  \/ \E t \in Threads, sz \in FrameSizes : Create(t, sz) /\ UNCHANGED mainvars
  \/ \E g \in GenIds : next(g) /\ UNCHANGED mainvars

SpecAlloc == InitAlloc /\ [][AllocNext]_vars

\* Consumers of a producer whose body ends in a fault: generators created,
\* advanced through next() and through iterators, read and destroyed.
InitThrow ==
  /\ producer \in ThrowingProducers
  /\ frames  = [f \in FrameIds |-> NoFrame]
  /\ gens    = [g \in GenIds |-> NoGen]
  /\ iters   = [it \in IterIds |-> nullptr]
  /\ crashed = FALSE
  /\ at      = [l \in Loops |-> [pc |-> "start", g |-> nullptr, it |-> nullptr]]
  /\ printed = [l \in Loops |-> << >>]
  /\ pmem_pool = [t \in Threads |-> "mem_pool"]
  /\ pmr_alloc = NoAllocator
  /\ bad_alloc = FALSE

ThrowNext ==
  \/ \E t \in Threads, sz \in FrameSizes : Create(t, sz) /\ UNCHANGED mainvars
  \/ \E g \in GenIds : Destruct(g) /\ UNCHANGED mainvars
  \/ \E g \in GenIds : next(g) /\ UNCHANGED mainvars
  \/ \E g \in GenIds : GetValue(g) /\ UNCHANGED mainvars
  \/ \E g \in GenIds, it \in IterIds : begin(g, it) /\ UNCHANGED mainvars
  \/ \E it \in IterIds : Increment(it) /\ UNCHANGED mainvars

SpecThrow == InitThrow /\ [][ThrowNext]_vars

\* the loop of main() over ascending_sequence(start), for every start
InitAsc ==
  /\ producer \in { [kind |-> "asc", body |-> << >>, arg |-> s] :
                      s \in 0 .. Modulus - 1 }
  /\ frames  = [f \in FrameIds |-> NoFrame]
  /\ gens    = [g \in GenIds |-> NoGen]
  /\ iters   = [it \in IterIds |-> nullptr]
  /\ crashed = FALSE
  /\ at      = [l \in Loops |-> [pc |-> "start", g |-> nullptr, it |-> nullptr]]
  /\ printed = [l \in Loops |-> << >>]
  /\ pmem_pool = [t \in Threads |-> "mem_pool"]
  /\ pmr_alloc = NoAllocator
  /\ bad_alloc = FALSE

AscNext ==
  \/ AscStart
  \/ AscTest
  \/ AscBody

SpecAsc == InitAsc /\ [][AscNext]_vars

\* invoke_fib_seq(fibonacci(ceiling)), for every ceiling of T
InitFib ==
  /\ producer \in { [kind |-> "fib", body |-> << >>, arg |-> c] :
                      c \in 0 .. Modulus - 1 }
  /\ frames  = [f \in FrameIds |-> NoFrame]
  /\ gens    = [g \in GenIds |-> NoGen]
  /\ iters   = [it \in IterIds |-> nullptr]
  /\ crashed = FALSE
  /\ at      = [l \in Loops |-> [pc |-> "start", g |-> nullptr, it |-> nullptr]]
  /\ printed = [l \in Loops |-> << >>]
  /\ pmem_pool = [t \in Threads |-> "mem_pool"]
  /\ pmr_alloc = NoAllocator
  /\ bad_alloc = FALSE

FibNext ==
  \/ InvokeStart
  \/ InvokeTestWithin(MaxRuns)
  \/ InvokeBody

SpecFib == InitFib /\ [][FibNext]_vars

\* the two consumer loops of main(), each over a generator of its own of the
\* same producer
SpecMain == Init /\ [][MainNext]_vars

\* ------------------------------------------------------------ properties
\* The run of the producer body alone, from its start: the body's state after
\* k runs (y: the k-th run ended at a co_yield, of value v).
RefStep(s) == IF s.y THEN RunBody(producer, s.pc, s.i, s.j) ELSE s

RECURSIVE RefRun(_)
RefRun(k) ==
  IF k = 0 THEN [y |-> TRUE, v |-> 0, pc |-> 0, i |-> 0, j |-> 0]
  ELSE RefStep(RefRun(k - 1))

\* the generator objects that hold the handle of frame f
Owners(f) == { g \in GenIds : gens[g].alive /\ gens[g].coro = f }

\* C1: a straight-line body with N co_yields, driven by next() alone (under
\* SpecUse every run of the body is one next() call, so steps is the number of
\* next() calls so far, as long as the frame is not done): calls 1..N return
\* true and getValue() after the k-th holds the k-th co_yield value, call
\* N + 1 returns false.
C1_NextCountsYields ==
  \A f \in FrameIds :
    (producer.kind = "seq" /\ frames[f].status = "live") =>
      LET N == Len(producer.body)
          k == frames[f].steps
      IN  /\ k <= N + 1
          /\ k = 0 => frames[f].lastNext = "none"
          /\ (1 <= k /\ k <= N) =>
               /\ frames[f].lastNext = "true"
               /\ \A g \in Owners(f) : getValue(g) = make_optional(producer.body[k])
          /\ k = N + 1 => frames[f].lastNext \in {"false", "nothing"}
          /\ next_result(f) = (k < N)

\* C1 witness: a body of two co_yields of different values has been driven
\* to its end by three next() calls
C1_Witness ==
  \E f \in FrameIds :
    /\ producer.kind = "seq" /\ Len(producer.body) = 2
    /\ producer.body[1] # producer.body[2]
    /\ frames[f].status = "live" /\ frames[f].steps = 3
    /\ frames[f].lastNext = "false"

\* C2: next() on a generator whose frame is done, or that has no frame,
\* returns false and leaves the frame as it is: no run of the body, no
\* co_yield, current_value and the suspension point untouched.
C2_NextOnExhaustedIsNoOp ==
  \A g \in GenIds :
    LET c == gens[g].coro IN
      (gens[g].alive /\ (c = nullptr \/ frames[c].done)) =>
        /\ next_result(c) = FALSE
        /\ c = nullptr => next_frames(c) = frames
        /\ c # nullptr =>
             next_frames(c) = [frames EXCEPT ![c].lastNext = "nothing"]

\* C2 witness: next() has been called on an exhausted generator
C2_Witness ==
  \E g \in GenIds :
    /\ gens[g].alive /\ gens[g].coro # nullptr
    /\ frames[gens[g].coro].done
    /\ frames[gens[g].coro].lastNext = "nothing"

\* C3: a frame that was never advanced has run nothing of the body: no run,
\* no co_yield, and, while it lives, it is suspended at the start with the
\* default current_value; this holds for frames destroyed unadvanced too.
C3_LazyStart ==
  \A f \in FrameIds :
    (frames[f].status # "free" /\ frames[f].lastNext = "none") =>
      /\ frames[f].steps = 0
      /\ frames[f].nyields = 0
      /\ frames[f].status = "live" =>
           /\ frames[f].pc = 0
           /\ ~ frames[f].done
           /\ frames[f].current_value = DefaultValue

\* C3 witness: a generator was created and destroyed without being advanced
C3_Witness ==
  \E f \in FrameIds :
    /\ frames[f].status = "destroyed"
    /\ frames[f].lastNext = "none"
    /\ frames[f].steps = 0

\* C4: every live frame is held by exactly one generator object, and a
\* generator object holds no frame that is not live.
C4_ExclusiveOwnership ==
  /\ \A f \in FrameIds :
       frames[f].status = "live" => Cardinality(Owners(f)) = 1
  /\ \A g \in GenIds :
       (gens[g].alive /\ gens[g].coro # nullptr) =>
         frames[gens[g].coro].status = "live"
  /\ \A g, h \in GenIds :
       (g # h /\ gens[g].alive /\ gens[h].alive /\ gens[g].coro = gens[h].coro) =>
         gens[g].coro = nullptr

\* C4 witness: after a move there are a generator object without a frame
\* and one that holds a live frame, and a move assignment has destroyed the
\* other frame
C4_Witness ==
  \E g, h \in GenIds, f \in FrameIds :
    /\ gens[g].alive /\ gens[g].coro = nullptr
    /\ gens[h].alive /\ gens[h].coro # nullptr /\ gens[h].coro # f
    /\ frames[gens[h].coro].status = "live"
    /\ frames[f].destroyedBy = "assign"

\* C5: destroy() is called at most once on a frame; a frame is destroyed
\* exactly when destroy() was called on it; a generator object that was
\* destroyed holds no handle, and its frame did not stay behind live.
C5_DestroyedOnce ==
  /\ \A f \in FrameIds :
       /\ frames[f].destroys <= 1
       /\ frames[f].status = "destroyed" <=> frames[f].destroys = 1
       /\ frames[f].status = "live" => Owners(f) # {}
  /\ \A g \in GenIds : ~ gens[g].alive => gens[g].coro = nullptr

\* C5 witness: ~generator() has destroyed, once, a frame that an iterator
\* had advanced and still refers to
C5_Witness ==
  \E f \in FrameIds :
    /\ frames[f].status = "destroyed"
    /\ frames[f].destroyedBy = "dtor"
    /\ frames[f].destroys = 1
    /\ frames[f].steps >= 1
    /\ \E it \in IterIds : iters[it] = f

\* the value the first next() on generator object g would leave in
\* current_value
AfterNext(g) == next_frames(gens[g].coro)[gens[g].coro].current_value

\* a move from generator object s to generator object d has handed the frame
\* over as it is
Moved(d, s) ==
  LET c == gens[s].coro
      r == RefRun(frames[c].nyields + 1)
  IN  /\ gens'[d].alive /\ gens'[d].coro = c
      /\ gens'[s].alive /\ gens'[s].coro = nullptr
      /\ next_result(gens[s].coro)' = FALSE
      /\ getValue(s)' = nullopt
      /\ c # nullptr =>
           /\ frames'[c] = frames[c]
           /\ next_result(gens[d].coro)' = r.y
           /\ r.y => AfterNext(d)' = r.v

\* C6: a move (construction, or assignment between two objects) hands the
\* frame over as it is: the destination holds the source's handle, the frame
\* is unchanged, and if the producer had executed k co_yields the first
\* next() on the destination returns true and leaves the (k+1)-th value, or
\* returns false if the body has no (k+1)-th co_yield; the source holds no
\* frame, its next() returns false and its getValue() nullopt.
C6_MoveTransfersPosition ==
  [][/\ \A s \in GenIds :
          MoveConstruct(s) => \A d \in GenIds : d = NewGen => Moved(d, s)
     /\ \A d, s \in GenIds :
          (d # s /\ MoveAssign(d, s)) => Moved(d, s)]_vars

\* C6 witness: a generator that was advanced and then moved has been
\* advanced again through the destination
C6_Witness ==
  \E g, h \in GenIds :
    /\ gens[g].alive /\ gens[g].coro = nullptr
    /\ gens[h].alive /\ gens[h].coro # nullptr
    /\ frames[gens[h].coro].lastNext = "true"
    /\ frames[gens[h].coro].steps >= 2

\* C7: a move assignment onto a generator object that holds a live frame
\* (from another object) destroys that frame, once, and no object holds it
\* afterwards; the destination holds the source's handle.
C7_AssignDestroysOld ==
  [][\A d, s \in GenIds :
       (MoveAssign(d, s) /\ d # s /\ gens[d].coro # nullptr) =>
         LET old == gens[d].coro
         IN  /\ frames[old].status = "live" /\ frames[old].destroys = 0
             /\ frames'[old].status = "destroyed"
             /\ frames'[old].destroys = 1
             /\ \A g \in GenIds : gens'[g].coro # old
             /\ gens'[d].coro = gens[s].coro]_vars

\* C7 witness: a move assignment has destroyed the frame its destination
\* held, and the destination holds another live frame
C7_Witness ==
  \E f \in FrameIds, g \in GenIds :
    /\ frames[f].destroyedBy = "assign" /\ frames[f].destroys = 1
    /\ gens[g].alive /\ gens[g].coro # nullptr /\ gens[g].coro # f
    /\ frames[gens[g].coro].status = "live"

\* C8: the destruction of a frame that is not done (suspended at a co_yield,
\* or not started) runs nothing of the body and executes no co_yield.
C8_DestroyRunsNothing ==
  [][\A f \in FrameIds :
       (frames[f].status = "live" /\ ~ frames[f].done
          /\ frames'[f].status = "destroyed") =>
         /\ frames'[f].steps = frames[f].steps
         /\ frames'[f].nyields = frames[f].nyields]_vars

\* C8 witness: ~generator() destroyed a frame that was suspended at a
\* co_yield
C8_Witness ==
  \E f \in FrameIds :
    /\ frames[f].status = "destroyed" /\ frames[f].destroyedBy = "dtor"
    /\ frames[f].nyields >= 1
    /\ frames[f].steps = frames[f].nyields

\* C9: after a next() that returned true, getValue() is engaged and holds
\* the value of the co_yield that run of the body ended at: the body has run
\* exactly as often as it has yielded, and the value is the one the producer
\* alone yields at that position.
C9_TrueNextHasValue ==
  \A g \in GenIds :
    LET c == gens[g].coro IN
      (gens[g].alive /\ c # nullptr /\ frames[c].lastNext = "true") =>
        /\ getValue(g) # nullopt
        /\ getValue(g) = make_optional(frames[c].lastYield)
        /\ frames[c].nyields = frames[c].steps
        /\ RefRun(frames[c].steps).y
        /\ frames[c].lastYield = RefRun(frames[c].steps).v

\* C9 witness: a looping producer has been advanced three times, into its
\* loop, and the last next() returned true
C9_Witness ==
  \E g \in GenIds :
    /\ producer.kind \in {"asc", "fib"}
    /\ gens[g].alive /\ gens[g].coro # nullptr
    /\ frames[gens[g].coro].lastNext = "true"
    /\ frames[gens[g].coro].steps >= 3

\* C10, as claimed: getValue() on a generator whose frame has not yet yielded
\* reports an absent value.
C10_AbsentBeforeFirstYield ==
  \A g \in GenIds :
    (gens[g].alive /\ gens[g].coro # nullptr
       /\ frames[gens[g].coro].nyields = 0) =>
      getValue(g) = nullopt

\* C10, amended: getValue() on a generator whose frame has not yet yielded
\* reports the default-constructed T, as an engaged optional; it reports an
\* absent value only when the generator holds no frame.
C10_DefaultBeforeFirstYield ==
  \A g \in GenIds :
    gens[g].alive =>
      /\ (gens[g].coro # nullptr /\ frames[gens[g].coro].nyields = 0) =>
           getValue(g) = make_optional(DefaultValue)
      /\ getValue(g) = nullopt <=> gens[g].coro = nullptr

\* C10 witness: a producer finished without yielding, and its generator
\* still holds the frame
C10_Witness ==
  \E g \in GenIds :
    /\ gens[g].alive /\ gens[g].coro # nullptr
    /\ frames[gens[g].coro].done
    /\ frames[gens[g].coro].nyields = 0
    /\ frames[gens[g].coro].lastNext = "false"

\* the value a frame's promise has on record: that of the last co_yield the
\* producer executed, or the default-constructed T if it executed none
Recorded(fr) == IF fr.nyields > 0 THEN fr.lastYield ELSE DefaultValue

\* C11: a freshly created generator, before any next(), is not terminal, its
\* first next() resumes the producer (one run of the body, the first), and
\* its getValue() reports absent or the default-constructed T: the producer
\* body has executed no co_yield whose value it could be.
C11_FreshGenerator ==
  \A g \in GenIds :
    LET c == gens[g].coro IN
      (gens[g].alive /\ c # nullptr /\ frames[c].lastNext = "none") =>
        /\ frames[c].status = "live"
        /\ ~ done(frames[c])
        /\ ~ next_nothing_more(c)
        /\ frames[c].steps = 0 /\ next_frames(c)[c].steps = 1
        /\ next_result(c) = RefRun(1).y
        /\ frames[c].nyields = 0
        /\ getValue(g) \in {nullopt, make_optional(DefaultValue)}

\* C11 witness: a generator that was just created, next to one that has been
\* advanced to a value other than the default
C11_Witness ==
  \E g, h \in GenIds :
    /\ gens[g].alive /\ gens[g].coro # nullptr
    /\ frames[gens[g].coro].lastNext = "none"
    /\ gens[h].alive /\ gens[h].coro # nullptr
    /\ frames[gens[h].coro].lastNext = "true"
    /\ frames[gens[h].coro].current_value # DefaultValue

\* C12: getValue() on a generator object without a frame is nullopt (it is
\* evaluated without a frame to read, and no operation of a consumer faults);
\* on a generator with a frame it is the value most recently recorded in the
\* promise.
C12_GetValueReportsRecorded ==
  /\ ~ crashed
  /\ \A g \in GenIds :
       gens[g].alive =>
         /\ getValue(g) \in OptionalT
         /\ gens[g].coro = nullptr => getValue(g) = nullopt
         /\ gens[g].coro # nullptr =>
              getValue(g) = make_optional(Recorded(frames[gens[g].coro]))

\* C12 witness: a moved-from generator next to the generator that took its
\* frame, which has yielded a value other than the default
C12_Witness ==
  \E g, h \in GenIds :
    /\ gens[g].alive /\ gens[g].coro = nullptr
    /\ gens[h].alive /\ gens[h].coro # nullptr
    /\ frames[gens[h].coro].nyields >= 1
    /\ frames[gens[h].coro].lastYield # DefaultValue
    /\ frames[gens[h].coro].current_value = frames[gens[h].coro].lastYield

\* C13: once the producer has completed, the frame stays terminal as long as
\* it exists, with the value of the last co_yield in current_value: in every
\* state next() on it returns false and getValue() that value, and no step
\* changes the frame other than by destroying it.
C13_TerminalForever ==
  [][\A g \in GenIds :
       LET c == gens[g].coro IN
         (gens[g].alive /\ c # nullptr /\ done(frames[c])) =>
           /\ next_result(c) = FALSE
           /\ getValue(g) = make_optional(Recorded(frames[c]))
           /\ frames'[c].status = "live" =>
                /\ done(frames'[c])
                /\ frames'[c].current_value = frames[c].current_value
                /\ frames'[c].pc = frames[c].pc
                /\ frames'[c].steps = frames[c].steps]_vars

\* C13 witness: a producer that yielded a value other than the default has
\* completed, and a later next() on it found nothing more to process
C13_Witness ==
  \E g \in GenIds :
    /\ gens[g].alive /\ gens[g].coro # nullptr
    /\ frames[gens[g].coro].done
    /\ frames[gens[g].coro].lastNext = "nothing"
    /\ frames[gens[g].coro].nyields >= 1
    /\ frames[gens[g].coro].current_value # DefaultValue

\* C14: getValue() changes nothing: a step that is a getValue() call leaves
\* the producer, every frame (suspension point, done, current_value), every
\* generator object and every iterator as it was and returns what a repeated
\* getValue() returns; what the next next() returns and leaves is computed
\* from these alone (next_result, next_frames), so it is what it would have
\* been without the call.
C14_GetValueChangesNothing ==
  [][\A g \in GenIds :
       GetValue(g) =>
         /\ producer' = producer
         /\ frames' = frames /\ gens' = gens /\ iters' = iters
         /\ getValue(g)' = getValue(g)]_vars

\* C14 witness: a generator suspended at a co_yield, between two next() calls
\* (a further next() would resume it), holding a value other than the default
C14_Witness ==
  \E g \in GenIds :
    /\ gens[g].alive /\ gens[g].coro # nullptr
    /\ frames[gens[g].coro].lastNext = "true"
    /\ frames[gens[g].coro].steps >= 2
    /\ ~ next_nothing_more(gens[g].coro)
    /\ getValue(g) # make_optional(DefaultValue)

\* C15: consuming a generator through the iterator adapter, as
\* std::ranges::for_each does, visits the same values in the same order and
\* the same number of them as while (next()) getValue() on another generator
\* of the same producer: of the two lists of printed values one is always a
\* prefix of the other, a loop that has ended has printed no less than the
\* other, and no getValue().value() found the optional empty.
C15_ForEachVisitsSameValues ==
  LET m == printed["invoke_fib_seq"]
      f == printed["for_each"]
  IN  /\ \A k \in 1 .. Len(m) : k <= Len(f) => m[k] = f[k]
      /\ at["invoke_fib_seq"].pc = "end" => Len(f) <= Len(m)
      /\ at["for_each"].pc = "end" => Len(m) <= Len(f)
      /\ (at["invoke_fib_seq"].pc = "end" /\ at["for_each"].pc = "end") => m = f
      /\ at["invoke_fib_seq"].pc # "bad_optional_access"
      /\ ~ crashed

\* C15 witness: both loops have ended, after printing at least two values,
\* not all of them equal
C15_Witness ==
  /\ at["invoke_fib_seq"].pc = "end"
  /\ at["for_each"].pc = "end"
  /\ Len(printed["for_each"]) >= 2
  /\ printed["for_each"][1] # printed["for_each"][2]
  /\ printed["invoke_fib_seq"] = printed["for_each"]

\* Generators created through the allocation strategy and destroyed, by
\* threads that install the fixed buffer allocator and reset to the default
\* in between.
FreeNext ==
  \/ \E c \in Capacities : fixed_buffer_pmr_allocator(c) /\ UNCHANGED mainvars
  \/ \E t \in Threads : set_pmr_mem_pool(t) /\ UNCHANGED mainvars
  \/ \E t \in Threads : reset_default_pmr_mem_pool(t) /\ UNCHANGED mainvars
  \/ \E t \in Threads, sz \in FrameSizes : Create(t, sz) /\ UNCHANGED mainvars
  \/ \E t \in Threads, g \in GenIds, sz \in FrameSizes :
       DestructOn(t, g, sz) /\ UNCHANGED mainvars

SpecFree == InitAlloc /\ [][FreeNext]_vars

\* The earlier coro_exp::generator: generators created, handed on by move
\* construction and move assignment, advanced and destroyed.  Its move
\* constructor and its destructor are those of coro::generator.
ExpNext ==
  \/ \E t \in Threads, sz \in FrameSizes : Create(t, sz) /\ UNCHANGED mainvars
  \/ \E src \in GenIds : MoveConstruct(src) /\ UNCHANGED mainvars
  \/ \E dst \in GenIds, src \in GenIds :
       coro_exp_MoveAssign(dst, src) /\ UNCHANGED mainvars
  \/ \E g \in GenIds : Destruct(g) /\ UNCHANGED mainvars
  \/ \E g \in GenIds : coro_exp_next(g) /\ UNCHANGED mainvars

SpecExp == Init /\ [][ExpNext]_vars

\* C16: begin() on a generator that is not terminal resumes its frame exactly
\* once, and so does ++ on an iterator that is not end(); the iterator is
\* end() afterwards exactly if that run of the body ended it, and refers to
\* the frame otherwise; begin() on a terminal or empty generator returns
\* end() and resumes nothing.
C16_IteratorProtocol ==
  [][/\ \A g \in GenIds, it \in IterIds :
          begin(g, it) =>
            LET c == gens[g].coro IN
              IF c = nullptr \/ done(frames[c])
                THEN iters'[it] = nullptr /\ frames' = frames
                ELSE /\ frames'[c].steps = frames[c].steps + 1
                     /\ \A f \in FrameIds \ {c} : frames'[f] = frames[f]
                     /\ iters'[it] = nullptr <=> done(frames'[c])
                     /\ iters'[it] \in {nullptr, c}
     /\ \A it \in IterIds :
          (Increment(it) /\ iters[it] # nullptr) =>
            LET h == iters[it] IN
              /\ frames'[h].steps = frames[h].steps + 1
              /\ \A f \in FrameIds \ {h} : frames'[f] = frames[f]
              /\ iters'[it] = nullptr <=> done(frames'[h])
              /\ iters'[it] \in {nullptr, h}]_vars

\* C16 witness: an iterator obtained from begin() was incremented until the
\* producer completed, and is end()
C16_Witness ==
  \E it \in IterIds, f \in FrameIds :
    /\ iters[it] = nullptr
    /\ frames[f].done
    /\ frames[f].lastNext = "iter"
    /\ frames[f].nyields >= 2
    /\ frames[f].steps = frames[f].nyields + 1

\* the generator object a step has constructed on the frame at address p
Constructed(p) ==
  \E g \in GenIds :
    /\ ~ gens[g].alive
    /\ gens'[g] = [alive |-> TRUE, coro |-> p]
    /\ frames'[p].status = "live"

\* C17: a producer invocation on a thread that has the fixed buffer allocator
\* installed succeeds exactly if the frame size is at most the remaining
\* capacity, a request for all that remains included; it then debits the
\* size and the generator exists, and otherwise it reports std::bad_alloc.
\* The remaining capacity never exceeds the buffer's size.
C17_FitsRemainingCapacity ==
  [][/\ pmr_alloc.buf_size <= pmr_alloc.max_buf_size
     /\ \A t \in Threads, sz \in FrameSizes :
          (Create(t, sz) /\ pmem_pool[t] = "pmr_alloc") =>
            /\ bad_alloc' <=> sz > pmr_alloc.buf_size
            /\ ~ bad_alloc' =>
                 /\ pmr_alloc'.buf_size = pmr_alloc.buf_size - sz
                 /\ Constructed(pmr_alloc.buf)]_vars

\* C17 witness: generators were created from the buffer until nothing was
\* left of it, the last request taking exactly what remained, and a further
\* request has reported std::bad_alloc
C17_Witness ==
  /\ pmr_alloc.buf # nullptr
  /\ pmr_alloc.max_buf_size >= 2
  /\ pmr_alloc.buf_size = 0
  /\ bad_alloc
  /\ \E g \in GenIds : gens[g].alive /\ gens[g].coro = pmr_alloc.buf

\* C18, as claimed: the frames of the generators alive at the same time do
\* not share storage, whichever resource they were allocated from: two
\* generator objects never hold the same frame address.
C18_DisjointFrames ==
  \A g, h \in GenIds :
    (g # h /\ gens[g].alive /\ gens[h].alive /\ gens[g].coro # nullptr) =>
      gens[g].coro # gens[h].coro

\* C19: a producer invocation that fails for lack of capacity reports
\* std::bad_alloc and changes nothing else: no frame, no generator object, not
\* the remaining capacity, not the installed resources; and a thread that
\* has called reset_default_pmr_mem_pool() has the default resource, with
\* which the producer invocation succeeds.
C19_FailedCreationIsAtomic ==
  [][/\ \A t \in Threads, sz \in FrameSizes :
          (Create(t, sz) /\ operator_new(t, sz).throws) =>
            /\ bad_alloc'
            /\ frames' = frames /\ gens' = gens /\ iters' = iters
            /\ pmr_alloc' = pmr_alloc /\ pmem_pool' = pmem_pool
     /\ \A t \in Threads :
          reset_default_pmr_mem_pool(t) => pmem_pool'[t] = "mem_pool"
     /\ \A t \in Threads, sz \in FrameSizes :
          (Create(t, sz) /\ pmem_pool[t] = "mem_pool") =>
            /\ ~ bad_alloc'
            /\ \E p \in FrameIds : Constructed(p)]_vars

\* C19 witness: with a generator from the buffer alive and advanced, a further
\* producer invocation has reported std::bad_alloc, capacity remains, and
\* the thread that met the failure has reset to the default resource
C19_Witness ==
  /\ bad_alloc
  /\ pmr_alloc.buf_size >= 1
  /\ \A t \in Threads : pmem_pool[t] = "mem_pool"
  /\ \E g \in GenIds :
       /\ gens[g].alive /\ gens[g].coro = pmr_alloc.buf
       /\ frames[gens[g].coro].steps >= 1

\* C20: every thread starts with the default resource, a thread's resource
\* changes only by its own set_pmr_mem_pool (to the resource set) or
\* reset_default_pmr_mem_pool (to the default), and each frame creation takes
\* its storage from the resource its thread has installed: the buffer, whose
\* capacity it debits, or storage of the default resource that nothing uses.
C20_CreationUsesInstalledResource ==
  /\ \A t \in Threads : pmem_pool[t] = "mem_pool"
  /\ [][/\ \A t \in Threads :
             /\ pmem_pool'[t] # pmem_pool[t] =>
                  set_pmr_mem_pool(t) \/ reset_default_pmr_mem_pool(t)
             /\ set_pmr_mem_pool(t) => pmem_pool'[t] = "pmr_alloc"
             /\ reset_default_pmr_mem_pool(t) => pmem_pool'[t] = "mem_pool"
        /\ \A t \in Threads, sz \in FrameSizes :
             (Create(t, sz) /\ ~ bad_alloc') =>
               IF pmem_pool[t] = "pmr_alloc"
                 THEN /\ Constructed(pmr_alloc.buf)
                      /\ pmr_alloc'.buf_size = pmr_alloc.buf_size - sz
                 ELSE /\ \E p \in FrameIds \ {pmr_alloc.buf} :
                           frames[p].status = "free" /\ Constructed(p)
                      /\ pmr_alloc' = pmr_alloc]_vars

\* C20 witness: a thread that installed the buffer created a generator from
\* it, then reset to the default and created a generator from the default
\* resource, while another thread has the buffer installed
C20_Witness ==
  \E g, h \in GenIds, t, u \in Threads :
    /\ gens[g].alive /\ gens[g].coro = pmr_alloc.buf /\ pmr_alloc.buf # nullptr
    /\ gens[h].alive /\ gens[h].coro # nullptr /\ gens[h].coro # pmr_alloc.buf
    /\ pmem_pool[t] = "mem_pool" /\ pmem_pool[u] = "pmr_alloc"

\* C21: the override is per thread: a set_pmr_mem_pool or
\* reset_default_pmr_mem_pool of one thread leaves the resource of every other
\* thread, and what a producer invocation of the other thread would be given,
\* as they were; every thread starts with the default resource and keeps it
\* through every step that is not its own set_pmr_mem_pool, and with it its
\* producer invocations take storage of the default resource.
C21_OverrideIsPerThread ==
  /\ \A t \in Threads : pmem_pool[t] = "mem_pool"
  /\ [][\A t \in Threads :
          /\ (set_pmr_mem_pool(t) \/ reset_default_pmr_mem_pool(t)) =>
               \A u \in Threads \ {t} :
                 /\ pmem_pool'[u] = pmem_pool[u]
                 /\ \A sz \in FrameSizes :
                      (pmem_pool[u] = "pmr_alloc" \/ FreeFrames # {}) =>
                        operator_new(u, sz)' = operator_new(u, sz)
          /\ (pmem_pool[t] = "mem_pool" /\ ~ set_pmr_mem_pool(t)) =>
               pmem_pool'[t] = "mem_pool"
          /\ \A sz \in FrameSizes :
               (pmem_pool[t] = "mem_pool" /\ Create(t, sz)) =>
                 /\ ~ bad_alloc'
                 /\ pmr_alloc' = pmr_alloc
                 /\ \E p \in FrameIds \ {pmr_alloc.buf} : Constructed(p)]_vars

\* C21 witness: while one thread has the buffer installed and has used it
\* up, a generator that another thread created from the default resource
\* has been advanced
C21_Witness ==
  \E t, u \in Threads, g \in GenIds :
    /\ pmem_pool[t] = "pmr_alloc" /\ pmem_pool[u] = "mem_pool"
    /\ pmr_alloc.max_buf_size >= 1 /\ pmr_alloc.buf_size = 0
    /\ gens[g].alive /\ gens[g].coro # nullptr /\ gens[g].coro # pmr_alloc.buf
    /\ frames[gens[g].coro].steps >= 1

\* C22: a fault that escapes the producer body during next(), begin() or ++
\* ends the process in that very step: the call does not return, nothing of
\* the generator is left to the consumer, and no operation (next(),
\* getValue(), destruction, iterator step) takes place afterwards; the
\* process ends in no other way.
C22_BodyFaultTerminates ==
  [][/\ ~ crashed
     /\ \A g \in GenIds :
          (resume_throws(gens[g].coro) /\ next(g)) =>
            crashed' /\ ~ gens'[g].alive
     /\ \A g \in GenIds, it \in IterIds :
          (resume_throws(gens[g].coro) /\ begin(g, it)) =>
            crashed' /\ ~ gens'[g].alive /\ iters'[it] = nullptr
     /\ \A it \in IterIds :
          (resume_throws(iters[it]) /\ Increment(it)) =>
            crashed' /\ iters'[it] = nullptr
     /\ crashed' =>
          /\ \A g \in GenIds : ~ gens'[g].alive
          /\ \/ \E g \in GenIds : gens[g].alive /\ resume_throws(gens[g].coro)
             \/ \E it \in IterIds : resume_throws(iters[it])]_vars

\* C22 witness: the process has ended, of a producer that yields before it
\* faults
C22_Witness ==
  /\ crashed
  /\ Len(producer.body) >= 1

\* C23: the loop over ascending_sequence(start): no next() returns false and
\* the producer is never terminal, so the loop ends only by its count of ten;
\* the k-th value read is start + (k - 1) as long as that is a value of T; no
\* getValue() finds the optional empty; and with start 0 the loop has read
\* 0, 1, ..., 9 when it ends.
C23_AscendingSequence ==
  LET l == at["ascending_sequence"]
      p == printed["ascending_sequence"]
  IN  /\ l.pc # "bad_optional_access"
      /\ l.pc = "end" => Len(p) = LoopCount
      /\ l.g # nullptr =>
           /\ gens[l.g].alive /\ gens[l.g].coro # nullptr
           /\ ~ done(frames[gens[l.g].coro])
           /\ frames[gens[l.g].coro].steps \in {Len(p), Len(p) + 1}
      /\ \A k \in 1 .. Len(p) :
           producer.arg + (k - 1) < Modulus => p[k] = producer.arg + (k - 1)
      /\ (l.pc = "end" /\ producer.arg = 0) =>
           p = [k \in 1 .. LoopCount |-> k - 1]

\* C23 witness: the loop over ascending_sequence(0) has ended, with ten
\* values read and the last of them 9
C23_Witness ==
  /\ producer.arg = 0
  /\ at["ascending_sequence"].pc = "end"
  /\ Len(printed["ascending_sequence"]) = 10
  /\ printed["ascending_sequence"][10] = 9

\* the Fibonacci numbers 0, 1, 1, 2, 3, 5, ...
RECURSIVE Fib(_)
Fib(n) == IF n < 2 THEN n ELSE Fib(n - 1) + Fib(n - 2)

\* the least n from which on Fib(n) exceeds c
RECURSIVE FirstAbove(_, _)
FirstAbove(c, n) == IF Fib(n) > c THEN n ELSE FirstAbove(c, n + 1)

\* fibonacci(c) computes no sum that is not a value of T: the last sum it
\* computes is the first Fibonacci number above c
NoOverflow(c) == Fib(FirstAbove(c, 0)) < Modulus

\* C24: for a ceiling c that lets no sum overflow, invoke_fib_seq over
\* fibonacci(c) reads the Fibonacci numbers that are <= c, in order, each
\* once, and then next() returns false: the loop ends when it has read all of
\* them and not before; with c = 10 it reads 0, 1, 1, 2, 3, 5, 8 and the 8th
\* next() returns false.
C24_FibonacciUpToCeiling ==
  LET l == at["invoke_fib_seq"]
      p == printed["invoke_fib_seq"]
      c == producer.arg
  IN  NoOverflow(c) =>
        /\ l.pc # "bad_optional_access"
        /\ \A k \in 1 .. Len(p) : p[k] = Fib(k - 1) /\ p[k] <= c
        /\ l.pc = "end" =>
             /\ Len(p) = FirstAbove(c, 0)
             /\ done(frames[gens[l.g].coro])
             /\ frames[gens[l.g].coro].steps = Len(p) + 1
        /\ (l.pc = "end" /\ c = 10) =>
             /\ p = << 0, 1, 1, 2, 3, 5, 8 >>
             /\ frames[gens[l.g].coro].steps = 8
             /\ frames[gens[l.g].coro].lastNext = "false"

\* C24 witness: invoke_fib_seq over fibonacci(10) has ended, with seven
\* values read and the last of them 8
C24_Witness ==
  /\ producer.arg = 10
  /\ at["invoke_fib_seq"].pc = "end"
  /\ Len(printed["invoke_fib_seq"]) = 7
  /\ printed["invoke_fib_seq"][7] = 8

\* C30: fibonacci(ceiling) reaches its end after finitely many next() calls,
\* for every ceiling of T: a body that has left the state in which it entered
\* its loop (i = 1, j = 0, suspended at the co_yield of the loop) is never in
\* that state again; a body that is runs from there as it ran before, for
\* ever, and its loop condition never fails.
C30_FibonacciTerminates ==
  \A f \in FrameIds :
    (frames[f].status = "live" /\ ~ done(frames[f]) /\ frames[f].steps > 2) =>
      ~ (frames[f].pc = 2 /\ frames[f].i = 1 /\ frames[f].j = 0)

\* C29: g = std::move(g) changes nothing: the frame g owns is not destroyed,
\* g still owns it, and the frame is at the position it was at, so that the
\* next next() continues the sequence from there.
C29_SelfAssignIsNoOp ==
  [][\A g \in GenIds :
       MoveAssign(g, g) =>
         /\ gens'[g] = gens[g]
         /\ frames' = frames
         /\ gens' = gens
         /\ iters' = iters]_vars

\* C29 witness: a generator that can be assigned to itself while it owns a
\* frame that has yielded and has not ended
C29_Witness ==
  \E g \in GenIds :
    /\ ~ crashed
    /\ gens[g].alive
    /\ gens[g].coro # nullptr
    /\ frames[gens[g].coro].status = "live"
    /\ frames[gens[g].coro].nyields > 0
    /\ ~ done(frames[gens[g].coro])

\* C26: getNext() never resumes a frame that is at its final suspension
\* point, however next(), begin() and ++ are interleaved on one generator:
\* an iterator that is not end() refers to a frame that is suspended at a
\* co_yield, which is the only test (if (hdl)) getNext() makes before it
\* resumes the frame.
C26_IteratorNeverTerminal ==
  \A it \in IterIds :
    (~ crashed /\ iters[it] # nullptr /\ frames[iters[it]].status = "live") =>
      /\ ~ done(frames[iters[it]])
      /\ frames[iters[it]].nyields > 0

\* C27: the producer only moves forward.  Whatever resumes a frame, next(),
\* begin() or ++, runs its body exactly once: the run that follows k earlier
\* ones leaves the frame where the producer alone is after k + 1 runs from
\* its start, at its (k + 1)-th co_yield with that value recorded, or at its
\* end; a step that does not resume a frame leaves its position alone.  So
\* begin() on a generator advanced j times positions at the (j + 1)-th value,
\* and no step takes a frame back to an earlier position.
C27_ForwardOnly ==
  [][/\ \A f \in FrameIds :
          (frames[f].status = "live" /\ frames'[f].status = "live") =>
            LET k == frames[f].steps
                r == RefRun(k + 1)
            IN  IF frames'[f].steps = k
                  THEN /\ frames'[f].pc = frames[f].pc
                       /\ frames'[f].i = frames[f].i
                       /\ frames'[f].j = frames[f].j
                       /\ frames'[f].nyields = frames[f].nyields
                       /\ frames'[f].current_value = frames[f].current_value
                  ELSE /\ frames'[f].steps = k + 1
                       /\ ~ done(frames[f])
                       /\ frames'[f].pc = r.pc
                       /\ frames'[f].i = r.i
                       /\ frames'[f].j = r.j
                       /\ done(frames'[f]) = ~ r.y
                       /\ r.y => /\ frames'[f].nyields = k + 1
                                 /\ frames'[f].current_value = r.v
     /\ \A g \in GenIds, it \in IterIds :
          (gens[g].alive /\ ~ next_nothing_more(gens[g].coro) /\ begin(g, it)) =>
            LET c == gens[g].coro
                r == RefRun(frames[c].steps + 1)
            IN  /\ frames'[c].steps = frames[c].steps + 1
                /\ r.y => /\ iters'[it] = c
                          /\ frames'[c].current_value = r.v]_vars

\* C27 witness: a frame an iterator refers to, so that begin() or ++ has
\* resumed it, was last resumed by next() and is at its third co_yield or
\* later
C27_Witness ==
  \E it \in IterIds :
    /\ iters[it] # nullptr
    /\ frames[iters[it]].status = "live"
    /\ frames[iters[it]].lastNext = "true"
    /\ frames[iters[it]].steps >= 3
    /\ frames[iters[it]].nyields = frames[iters[it]].steps

\* C25: the storage of a frame goes back, through operator delete, to the
\* memory resource operator new got it from, whatever set_pmr_mem_pool() and
\* reset_default_pmr_mem_pool() calls were made since the generator was
\* created: a step in which a destructor destroys a frame is the step of a
\* thread whose installed resource is the one that supplied the frame.
C25_ReturnedToSupplier ==
  [][\A g \in GenIds :
       ( /\ dtor_destroys(g)
         /\ frames[gens[g].coro].status = "live"
         /\ \E t \in Threads, sz \in FrameSizes : DestructOn(t, g, sz) ) =>
         \E t \in Threads, sz \in FrameSizes :
           /\ DestructOn(t, g, sz)
           /\ pmem_pool[t] = allocated_from(gens[g].coro)]_vars

\* C28: the fixed buffer allocator's remaining capacity is within
\* 0 .. max_buf_size and is max_buf_size less the bytes of every request it
\* granted: it is max_buf_size when the allocator is constructed, a granted
\* request of sz bytes takes exactly sz off it, and nothing else changes it;
\* a destructor, which deallocates, leaves it as it is, so that the bytes of a
\* destroyed frame are not there for a later creation, and it never goes
\* below zero.
C28_CapacityAccounting ==
  /\ [](/\ 0 <= pmr_alloc.buf_size
        /\ pmr_alloc.buf_size <= pmr_alloc.max_buf_size)
  /\ [][/\ pmr_alloc = NoAllocator =>
            \A c \in Capacities :
              fixed_buffer_pmr_allocator(c) =>
                pmr_alloc'.buf_size = c /\ pmr_alloc'.max_buf_size = c
        /\ pmr_alloc # NoAllocator =>
            /\ pmr_alloc'.max_buf_size = pmr_alloc.max_buf_size
            /\ pmr_alloc'.buf_size <= pmr_alloc.buf_size
        /\ (\E g \in GenIds : ~ gens[g].alive /\ gens'[g].alive) =>
            \A t \in Threads, sz \in FrameSizes :
              Create(t, sz) =>
                pmr_alloc'.buf_size =
                  IF pmem_pool[t] = "pmr_alloc" /\ ~ bad_alloc'
                    THEN pmr_alloc.buf_size - sz
                    ELSE pmr_alloc.buf_size
        /\ (\E g \in GenIds : ~ gens[g].alive /\ gens'[g].alive)
             \/ pmr_alloc = NoAllocator
             \/ pmr_alloc' = pmr_alloc
        /\ (\E g \in GenIds : gens[g].alive /\ ~ gens'[g].alive) =>
            /\ \E g \in GenIds :
                 /\ gens[g].alive /\ ~ gens'[g].alive
                 /\ \E t \in Threads, sz \in FrameSizes : DestructOn(t, g, sz)
            /\ pmr_alloc' = pmr_alloc]_vars

\* C28 witness: a frame that the fixed buffer supplied has been destroyed
\* through the fixed buffer allocator, and the bytes granted are still
\* missing from the remaining capacity
C28_Witness ==
  /\ pmr_alloc # NoAllocator
  /\ pmr_alloc.buf_size < pmr_alloc.max_buf_size
  /\ frames[pmr_alloc.buf].status = "destroyed"
  /\ \A g \in GenIds : ~ gens[g].alive
  /\ \E t \in Threads : pmem_pool[t] = "pmr_alloc"

\* C31: coro_exp::generator::next() never resumes a frame that is at its
\* end, nor a null handle: called on a generator whose producer has completed,
\* or on a moved-from generator, it returns false and resume() is not called,
\* so that the process runs on and no frame has changed.
C31_LegacyNextIsSafe ==
  [][\A g \in GenIds :
       (gens[g].alive /\ next_nothing_more(gens[g].coro) /\ coro_exp_next(g)) =>
         /\ ~ crashed'
         /\ \A f \in FrameIds : frames'[f].steps = frames[f].steps]_vars

\* C32: with coro_exp::generator no frame is leaked: once every generator
\* object has been destroyed, every frame that was created has been
\* destroyed, whatever move assignments were made (a move assignment onto a
\* generator that owns a live frame destroys that frame).
C32_LegacyNoLeak ==
  (~ crashed /\ \A g \in GenIds : ~ gens[g].alive) =>
    \A f \in FrameIds : frames[f].status # "live"

C34_PoolSwitchOwnsNothing ==
  [][\A t \in Threads :
       /\ set_pmr_mem_pool(t) => pmem_pool'[t] = "pmr_alloc"
       /\ reset_default_pmr_mem_pool(t) => pmem_pool'[t] = "mem_pool"
       /\ (set_pmr_mem_pool(t) \/ reset_default_pmr_mem_pool(t)) =>
            /\ pmr_alloc' = pmr_alloc
            /\ frames' = frames
            /\ gens' = gens
            /\ iters' = iters
            /\ ~ crashed'
            /\ bad_alloc' = bad_alloc
            /\ \A u \in Threads \ {t} : pmem_pool'[u] = pmem_pool[u]]_vars

\* C34 witness: a generator created from the fixed buffer is alive, part of
\* the buffer is used, and no thread has the buffer allocator installed any
\* more: it was set, used and reset
C34_Witness ==
  /\ pmr_alloc # NoAllocator
  /\ pmr_alloc.buf_size < pmr_alloc.max_buf_size
  /\ frames[pmr_alloc.buf].status = "live"
  /\ \E g \in GenIds : gens[g].alive /\ gens[g].coro = pmr_alloc.buf
  /\ \A t \in Threads : pmem_pool[t] = "mem_pool"

====
